---- MODULE Spec2Model ----
(***************************************************************************)
(* Model of the ITDB Fact-Sheet Analyzer.                                  *)
(*                                                                         *)
(*   extractors/json_extractor.py  JSONExtractor (retry loop, prompt,      *)
(*                                 brace scan)                             *)
(*   extractors/pdf_parser.py      extract_text_from_pdf, parse_and_embed  *)
(*   app.py                        the Streamlit script (one run = one     *)
(*                                 execution of the file, top to bottom)   *)
(*                                                                         *)
(* Texts are sequences of tokens.  A token stands for one character or for *)
(* one lexical unit of the text ("p" is one JSON member, "x" is prose).    *)
(***************************************************************************)
EXTENDS Integers, Sequences, FiniteSets, TLC

VARIABLES
    \* --- JSONExtractor._extract_json_block, called on its own ------------
    blk_pc,          \* "input" before the call, "done" after it
    blk_text,        \* the argument `text`
    blk_out,         \* what the call produced: a value or a ValueError
    \* --- one JSONExtractor and one call of extract ------------------------
    _client, _deployment, _temperature, _max_retries, _max_tokens,
    _SCHEMA,         \* the class attribute JSONExtractor._SCHEMA
    ex_pc,           \* "idle", "loop", "returned", "raised"
    raw_text,        \* the argument of extract
    prompt,          \* the local `prompt`
    attempt,         \* the loop variable (0 before the loop)
    requests,        \* the calls made to chat.completions.create, in order
    content,         \* the outcome of the latest call
    ex_out,          \* the value returned / the exception raised by extract
    log,             \* logger.exception records, in order
    \* --- extractors.pdf_parser imported and extract_text_from_pdf called ----
    pdf_pc,          \* "start" before the caller's import and call, "done" after
    doc_pages,       \* the pages of the document fitz.open would hand out
    doc_entered,     \* how often the document's __enter__ ran
    doc_exited,      \* how often the document's __exit__ ran
    pages_read,      \* the pages whose get_text was called, in order
    pdf_out,         \* what the caller got: a value or an exception
    \* --- one call of parse_and_embed -------------------------------------
    emb_pc,          \* "start" before the call, "done" after
    emb_args,        \* pdf_bytes, chunk_size, chunk_overlap, return_vectorstore
    work,            \* the work done by the call, in order
    emb_out,         \* what the call produced
    \* --- one browser session of app.py -------------------------------------
    ss_messages,         \* st.session_state.messages (<<>>: key absent)
    ss_pdf_text,         \* st.session_state["pdf_text"]        ({}: key absent)
    ss_vector_store,     \* st.session_state["vector_store"]    ({}: key absent)
    ss_rag_chain,        \* st.session_state["rag_chain"]       ({}: key absent)
    ss_pdf_name,         \* st.session_state["pdf_name"]        ({}: key absent)
    ss_structured_data,  \* st.session_state["structured_data"] ({}: key absent)
    stores,              \* the FAISS stores built so far; a store is named by its index
    uploaded,            \* the value of the file_uploader widget ({}: no file)
    ui_button,           \* the last run rendered the "Extract structured data" button
    ui_status,           \* the last run showed "success", "failed" or neither ("none")
    ui_run,              \* the last run "completed" or ended in an "exception"
    ui_chat,             \* the last run rendered the chat input (reached line 174)
    chat_call,           \* the model call the last run made for a chat turn
    last_trigger,        \* what started the last run
    runs                 \* script runs so far

blkVars == <<blk_pc, blk_text, blk_out>>
cfgVars == <<_client, _deployment, _temperature, _max_retries, _max_tokens, _SCHEMA>>
exVars  == <<ex_pc, raw_text, prompt, attempt, requests, content, ex_out, log>>
pdfVars == <<pdf_pc, doc_pages, doc_entered, doc_exited, pages_read, pdf_out>>
embVars == <<emb_pc, emb_args, work, emb_out>>
ssVars  == <<ss_messages, ss_pdf_text, ss_vector_store, ss_rag_chain, ss_pdf_name,
             ss_structured_data>>
appVars == <<ssVars, stores, uploaded, ui_button, ui_status, ui_run, ui_chat, chat_call,
             last_trigger, runs>>
vars    == <<blkVars, cfgVars, exVars, pdfVars, embVars, appVars>>

----------------------------------------------------------------------------
(* Bounds *)

MaxLen == 4          \* longest text handed to _extract_json_block
MaxRetriesBound == 3 \* largest max_retries an extractor is built with
MaxPages == 4        \* most pages of a document handed to extract_text_from_pdf
MaxChunk == 3        \* largest chunk_size handed to parse_and_embed
MaxRuns == 4         \* most script runs of one browser session

----------------------------------------------------------------------------
(* Texts *)

\* "{" "}" the braces; "p" one member ("key": value); " " whitespace;
\* "x" any other character.
Alphabet == {"{", "}", "p", " ", "x"}

RECURSIVE SeqsUpTo(_, _)
SeqsUpTo(S, n) ==
    IF n = 0 THEN {<<>>}
    ELSE LET shorter == SeqsUpTo(S, n - 1)
         IN  shorter \cup {Append(s, c) : s \in {t \in shorter : Len(t) = n - 1}, c \in S}

\* str.find(ch): index (from 0) of the first occurrence, -1 when absent
find(text, ch) ==
    IF \E i \in 1..Len(text) : text[i] = ch
    THEN (CHOOSE i \in 1..Len(text) :
              text[i] = ch /\ \A j \in 1..(i - 1) : text[j] # ch) - 1
    ELSE -1

\* str.rfind(ch): index (from 0) of the last occurrence, -1 when absent
rfind(text, ch) ==
    IF \E i \in 1..Len(text) : text[i] = ch
    THEN (CHOOSE i \in 1..Len(text) :
              text[i] = ch /\ \A j \in (i + 1)..Len(text) : text[j] # ch) - 1
    ELSE -1

\* text[a:b] for 0 <= a and 0 <= b <= len(text): empty when a >= b
Slice(text, a, b) == SubSeq(text, a + 1, b)

Returned(v) == [raised |-> FALSE, exc |-> "", value |-> v]
Raised(e)   == [raised |-> TRUE,  exc |-> e,  value |-> <<>>]

\* The scan with the closing brace searched from the left.
_extract_json_block_first_close(text) ==
    LET start == find(text, "{")
        end   == find(text, "}")
    IN  IF start = -1 \/ end = -1
        THEN Raised("ValueError")
        ELSE Returned(Slice(text, start, end + 1))

_extract_json_block(text) ==
    LET start == find(text, "{")
        end   == rfind(text, "}")
    IN  IF start = -1 \/ end = -1
        THEN Raised("ValueError")
        ELSE Returned(Slice(text, start, end + 1))

----------------------------------------------------------------------------
(* _extract_json_block called on its own (as the tests call it) *)

NoOut == [raised |-> FALSE, exc |-> "none", value |-> <<>>]

InitBlock ==
    /\ blk_pc = "input"
    /\ blk_text \in SeqsUpTo(Alphabet, MaxLen)
    /\ blk_out = NoOut

CallExtractJsonBlock ==
    /\ blk_pc = "input"
    /\ blk_out' = _extract_json_block(blk_text)
    /\ blk_pc' = "done"
    /\ UNCHANGED blk_text
    /\ UNCHANGED <<cfgVars, exVars, pdfVars, embVars, appVars>>

----------------------------------------------------------------------------
(* JSONExtractor: schema, prompt, parsing *)

Leaf(k, d)   == [key |-> k, desc |-> d,  sub |-> <<>>]
Nested(k, s) == [key |-> k, desc |-> "", sub |-> s]

\* JSONExtractor._SCHEMA as the class body defines it
SchemaLiteral ==
    << Leaf("year", "integer - 4-digit year of the fact sheet"),
       Leaf("total_incidents", "integer total number of incidents reported"),
       Leaf("nuclear_material_incidents", "integer incidents involving nuclear material"),
       Leaf("radioactive_material_incidents",
            "integer incidents involving other radioactive material"),
       Nested("incidents_by_material",
              << Leaf("uranium", "integer"), Leaf("plutonium", "integer"),
                 Leaf("medical_isotopes", "integer") >>),
       Nested("incidents_by_group",
              << Leaf("theft_or_loss", "integer"),
                 Leaf("unauthorized_activities", "integer"),
                 Leaf("other", "integer") >>) >>

Indent(depth) == [i \in 1..depth |-> "  "]
Quoted(s) == <<"\"", s, "\"">>

\* json.dumps(obj, indent=2) of a mapping of strings and nested mappings
RECURSIVE json_dumps(_, _)
RECURSIVE DumpItems(_, _, _)
DumpItems(entries, i, depth) ==
    IF i > Len(entries) THEN <<>>
    ELSE LET e == entries[i]
             v == IF e.sub = <<>> THEN Quoted(e.desc) ELSE json_dumps(e.sub, depth + 1)
         IN  <<"\n">> \o Indent(depth + 1) \o Quoted(e.key) \o <<": ">> \o v
             \o (IF i < Len(entries) THEN <<",">> ELSE <<>>)
             \o DumpItems(entries, i + 1, depth)
json_dumps(entries, depth) ==
    IF entries = <<>> THEN <<"{}">>
    ELSE <<"{">> \o DumpItems(entries, 1, depth) \o <<"\n">> \o Indent(depth) \o <<"}">>

INSTRUCTION == "The following is an ITDB fact sheet. ... no additional keys and no prose:\n\n"
BEGIN_MARK  == "--- BEGIN FACT SHEET ---\n"
END_MARK    == "--- END FACT SHEET ---"
SYSTEM_TEXT == "You are a data-extraction assistant. ..."

\* A prompt that leaves the document out.
_build_prompt_no_text(schema, raw) ==
    <<INSTRUCTION>> \o json_dumps(schema, 0) \o <<"\n\n", BEGIN_MARK>>
    \o <<"\n", END_MARK>>

_build_prompt(schema, raw) ==
    <<INSTRUCTION>> \o json_dumps(schema, 0) \o <<"\n\n", BEGIN_MARK>>
    \o raw \o <<"\n", END_MARK>>

\* str.strip(): whitespace removed from both ends
RECURSIVE lstrip(_)
lstrip(s) == IF s # <<>> /\ Head(s) = " " THEN lstrip(Tail(s)) ELSE s
RECURSIVE rstrip(_)
rstrip(s) == IF s # <<>> /\ s[Len(s)] = " " THEN rstrip(SubSeq(s, 1, Len(s) - 1)) ELSE s
strip(s) == rstrip(lstrip(s))

\* json.loads on a token text: whitespace may separate tokens; over this
\* alphabet the only documents are the objects {} and {p}.
NoSpace(s) == SelectSeq(s, LAMBDA t : t # " ")
json_loads(s) ==
    LET t == NoSpace(s)
    IN  IF t = <<"{", "}">> THEN Returned(<<>>)
        ELSE IF t = <<"{", "p", "}">> THEN Returned(<<"p">>)
        ELSE Raised("JSONDecodeError")

\* range(a, b) with a loop that asks one value too few
range_short(a, b) == a..(b - 2)

\* range(a, b)
range(a, b) == a..(b - 1)

----------------------------------------------------------------------------
(* One JSONExtractor and one call of extract *)

\* the documents extract is called with (one holds the end marker itself)
RawTexts == { <<>>, <<"t">>, <<"t", "\n", "t">>, <<"t", END_MARK, "t">> }
\* the response texts the endpoint answers with
Responses ==
    { <<>>,                                   \* empty
      <<"x", "x">>,                           \* prose only
      <<"{", "p">>,                           \* no closing brace
      <<"p", "}">>,                           \* no opening brace
      <<"}", "x", "{">>,                      \* closing brace before the opening one
      <<"{", "x", "}">>,                      \* a block that is not JSON
      <<"{", "}", "{", "}">>,                 \* two objects
      <<"{", "}">>,                           \* the empty object
      <<"{", "p", "}">>,                      \* an object
      <<" ", "{", " ", "p", "}", " ">>,       \* an object in whitespace
      <<"x", "{", "p", "}", "x">>,            \* an object in prose
      <<"x", " ", "{", "}", " ", "x">> }      \* the empty object in prose

NoExOut == [kind |-> "none", value |-> <<>>, attempts |-> 0]
NoContent == [kind |-> "none", text |-> <<>>]

\* JSONExtractor.__init__ with its keyword arguments, then nothing called yet
InitExtract ==
    /\ _client = "client"
    /\ _deployment \in {"gpt-4o-mini", "gpt-4o"}
    /\ _temperature \in {"0.0", "0.7"}
    /\ _max_retries \in 0..MaxRetriesBound
    /\ _max_tokens \in {"1024"}
    /\ _SCHEMA = SchemaLiteral
    /\ ex_pc = "idle"
    /\ raw_text = <<>>
    /\ prompt = <<>>
    /\ attempt = 0
    /\ requests = <<>>
    /\ content = NoContent
    /\ ex_out = NoExOut
    /\ log = <<>>

\* the keyword arguments of chat.completions.create at the time of the call
Request ==
    [ model |-> _deployment,
      messages |-> << [role |-> "system", content |-> <<SYSTEM_TEXT>>],
                      [role |-> "user", content |-> prompt] >>,
      max_tokens |-> _max_tokens,
      temperature |-> _temperature,
      top_p |-> "1.0" ]

Exhausted == [kind |-> "RuntimeError", value |-> <<>>, attempts |-> _max_retries]

\* extract, up to the first call: the prompt is built, the loop is entered
\* (or falls through at once when range(1, max_retries + 1) is empty)
ExtractBegin(raw) ==
    /\ ex_pc = "idle"
    /\ raw_text' = raw
    /\ prompt' = _build_prompt(_SCHEMA, raw)
    /\ IF 1 \in range(1, _max_retries + 1)
       THEN attempt' = 1 /\ ex_pc' = "loop" /\ ex_out' = ex_out
       ELSE attempt' = attempt /\ ex_pc' = "raised" /\ ex_out' = Exhausted
    /\ UNCHANGED <<requests, content, log>>
    /\ UNCHANGED cfgVars
    /\ UNCHANGED <<blkVars, pdfVars, embVars, appVars>>

\* the except clause of one attempt, and what the loop does next
AfterFailure(exc) ==
    /\ log' = Append(log, [attempt |-> attempt, exc |-> exc])
    /\ IF attempt + 1 \in range(1, _max_retries + 1)
       THEN attempt' = attempt + 1 /\ ex_pc' = "loop" /\ ex_out' = ex_out
       ELSE attempt' = attempt /\ ex_pc' = "raised" /\ ex_out' = Exhausted

\* one attempt in which chat.completions.create raises
AttemptCallRaises ==
    /\ ex_pc = "loop"
    /\ requests' = Append(requests, Request)
    /\ content' = [kind |-> "raise", text |-> <<>>]
    /\ AfterFailure("APIError")
    /\ UNCHANGED <<raw_text, prompt>>
    /\ UNCHANGED cfgVars
    /\ UNCHANGED <<blkVars, pdfVars, embVars, appVars>>

\* one attempt whose response carries no text (message.content is None)
AttemptNoContent ==
    /\ ex_pc = "loop"
    /\ requests' = Append(requests, Request)
    /\ content' = [kind |-> "null", text |-> <<>>]
    /\ AfterFailure("AttributeError")
    /\ UNCHANGED <<raw_text, prompt>>
    /\ UNCHANGED cfgVars
    /\ UNCHANGED <<blkVars, pdfVars, embVars, appVars>>

\* An attempt that keeps looping after a successful parse.
AttemptContentNoReturn(c) ==
    /\ ex_pc = "loop"
    /\ requests' = Append(requests, Request)
    /\ content' = [kind |-> "text", text |-> c]
    /\ LET blk == _extract_json_block(strip(c))
           doc == IF blk.raised THEN blk ELSE json_loads(blk.value)
       IN  IF doc.raised
           THEN AfterFailure(doc.exc)
           ELSE /\ log' = log
                /\ IF attempt + 1 \in range(1, _max_retries + 1)
                   THEN attempt' = attempt + 1 /\ ex_pc' = "loop" /\ ex_out' = ex_out
                   ELSE /\ attempt' = attempt /\ ex_pc' = "returned"
                        /\ ex_out' = [kind |-> "returned", value |-> doc.value,
                                      attempts |-> attempt]
    /\ UNCHANGED <<raw_text, prompt>>
    /\ UNCHANGED cfgVars
    /\ UNCHANGED <<blkVars, pdfVars, embVars, appVars>>

\* one attempt whose response carries the text c
AttemptContent(c) ==
    /\ ex_pc = "loop"
    /\ requests' = Append(requests, Request)
    /\ content' = [kind |-> "text", text |-> c]
    /\ LET blk == _extract_json_block(strip(c))
           doc == IF blk.raised THEN blk ELSE json_loads(blk.value)
       IN  IF doc.raised
           THEN AfterFailure(doc.exc)
           ELSE /\ ex_pc' = "returned"
                /\ ex_out' = [kind |-> "returned", value |-> doc.value,
                              attempts |-> attempt]
                /\ UNCHANGED <<attempt, log>>
    /\ UNCHANGED <<raw_text, prompt>>
    /\ UNCHANGED cfgVars
    /\ UNCHANGED <<blkVars, pdfVars, embVars, appVars>>

----------------------------------------------------------------------------
(* extractors/pdf_parser.py as Python reads it *)

\* The top-level statements of pdf_parser.py.  The body of
\* extract_text_from_pdf ends with its docstring (lines 41-57): the `with`
\* block of lines 59-60 and the `return` of line 61 start in column 0 and so
\* stand at module level, after the function.
PdfParserModule ==
    << [kind |-> "import", name |-> "__future__.annotations", first |-> 25, last |-> 25],
       [kind |-> "import", name |-> "typing", first |-> 27, last |-> 27],
       [kind |-> "import", name |-> "fitz", first |-> 29, last |-> 29],
       [kind |-> "import", name |-> "langchain", first |-> 31, last |-> 34],
       [kind |-> "def", name |-> "extract_text_from_pdf", first |-> 40, last |-> 57],
       [kind |-> "with", name |-> "fitz.open", first |-> 59, last |-> 60],
       [kind |-> "return", name |-> "full_text", first |-> 61, last |-> 61],
       [kind |-> "def", name |-> "parse_and_embed", first |-> 67, last |-> 116] >>

\* Compiling a module: a `return` outside a function is a SyntaxError, raised
\* before any statement of the module runs.
compile(module) ==
    IF \E i \in 1..Len(module) : module[i].kind = "return"
    THEN "SyntaxError"
    ELSE "ok"

PageTexts == {"a", "b", "!"}     \* "!" is a page whose get_text raises
NoPdfOut == [kind |-> "none", exc |-> "", value |-> <<>>]

InitPdf ==
    /\ pdf_pc = "start"
    /\ doc_pages \in SeqsUpTo(PageTexts, MaxPages)
    /\ doc_entered = 0
    /\ doc_exited = 0
    /\ pages_read = <<>>
    /\ pdf_out = NoPdfOut

\* A caller imports extractors.pdf_parser and calls extract_text_from_pdf, as
\* the test does (fitz.open would hand out the document doc_pages).  The
\* import compiles the module first.  Were the module to compile, the
\* function would run its body, the docstring alone, and return None.
ImportAndCallExtractText ==
    /\ pdf_pc = "start"
    /\ pdf_pc' = "done"
    /\ IF compile(PdfParserModule) = "SyntaxError"
       THEN pdf_out' = [kind |-> "raised", exc |-> "SyntaxError", value |-> <<>>]
       ELSE pdf_out' = [kind |-> "returned", exc |-> "", value |-> <<"None">>]
    /\ UNCHANGED <<doc_pages, doc_entered, doc_exited, pages_read>>
    /\ UNCHANGED <<blkVars, cfgVars, exVars, embVars, appVars>>

----------------------------------------------------------------------------
(* parse_and_embed: its body, lines 100-116, taken on its own, with        *)
(* extract_text_from_pdf behaving as its docstring says (as the file       *)
(* stands, no function of the module can be imported)                      *)

RECURSIVE JoinNewline(_)
JoinNewline(pages) ==
    IF pages = <<>> THEN <<>>
    ELSE IF Len(pages) = 1 THEN <<pages[1]>>
    ELSE <<pages[1], "\n">> \o JoinNewline(Tail(pages))

\* extract_text_from_pdf as its docstring (lines 41-57) and its test describe
\* it: the text of every page, joined by newlines; a page that cannot be read
\* makes the call raise.
extract_text_documented(pages) ==
    IF \E i \in 1..Len(pages) : pages[i] = "!"
    THEN Raised("DocumentError")
    ELSE Returned(JoinNewline(pages))

\* RecursiveCharacterTextSplitter(chunk_size, chunk_overlap): the constructor
\* raises ValueError when the overlap is larger than the chunk size.
SplitterAccepts(chunk_size, chunk_overlap) == ~(chunk_overlap > chunk_size)

\* splitter.split_text(text): the chunks, a function of the text and the
\* splitter's two parameters
split_text(text, chunk_size, chunk_overlap) ==
    [of |-> text, chunk_size |-> chunk_size, chunk_overlap |-> chunk_overlap]

EmbDocs == { <<"a">>, <<"a", "b">>, <<"!">> }
NoEmbOut == [kind |-> "none", exc |-> "", value |-> <<>>]

InitEmbed ==
    /\ emb_pc = "start"
    /\ emb_args \in [ pdf_bytes : EmbDocs,
                      chunk_size : 1..MaxChunk,
                      chunk_overlap : 0..(MaxChunk + 1),
                      return_vectorstore : BOOLEAN ]
    /\ work = <<>>
    /\ emb_out = NoEmbOut

EmbFrame ==
    /\ emb_pc' = "done"
    /\ UNCHANGED emb_args
    /\ UNCHANGED <<blkVars, cfgVars, exVars, pdfVars, appVars>>

\* line 101 raises: the document cannot be read
ParseAndEmbed_TextFails ==
    /\ emb_pc = "start"
    /\ extract_text_documented(emb_args.pdf_bytes).raised
    /\ work' = <<"extract_text_from_pdf">>
    /\ emb_out' = [kind |-> "raised", exc |-> "DocumentError", value |-> <<>>]
    /\ EmbFrame

\* lines 101-106: the text is extracted, then the splitter's constructor
\* rejects the configuration
ParseAndEmbed_SplitterRejects ==
    /\ emb_pc = "start"
    /\ ~extract_text_documented(emb_args.pdf_bytes).raised
    /\ ~SplitterAccepts(emb_args.chunk_size, emb_args.chunk_overlap)
    /\ work' = <<"extract_text_from_pdf">>
    /\ emb_out' = [kind |-> "raised", exc |-> "ValueError", value |-> <<>>]
    /\ EmbFrame

\* lines 101-116 with the embedding call raising
ParseAndEmbed_EmbedFails ==
    /\ emb_pc = "start"
    /\ ~extract_text_documented(emb_args.pdf_bytes).raised
    /\ SplitterAccepts(emb_args.chunk_size, emb_args.chunk_overlap)
    /\ work' = <<"extract_text_from_pdf", "split_text",
                 IF emb_args.return_vectorstore THEN "FAISS.from_documents"
                                                ELSE "embed_documents">>
    /\ emb_out' = [kind |-> "raised", exc |-> "APIError", value |-> <<>>]
    /\ EmbFrame

\* lines 101-112: the vector store is returned
ParseAndEmbed_ReturnsStore ==
    /\ emb_pc = "start"
    /\ ~extract_text_documented(emb_args.pdf_bytes).raised
    /\ SplitterAccepts(emb_args.chunk_size, emb_args.chunk_overlap)
    /\ emb_args.return_vectorstore
    /\ work' = <<"extract_text_from_pdf", "split_text", "FAISS.from_documents">>
    /\ emb_out' = [kind |-> "FAISS", exc |-> "",
                   value |-> <<split_text(extract_text_documented(emb_args.pdf_bytes).value,
                                          emb_args.chunk_size, emb_args.chunk_overlap)>>]
    /\ EmbFrame

\* lines 101-116 with return_vectorstore False: the (Document, vector) pairs
ParseAndEmbed_ReturnsPairs ==
    /\ emb_pc = "start"
    /\ ~extract_text_documented(emb_args.pdf_bytes).raised
    /\ SplitterAccepts(emb_args.chunk_size, emb_args.chunk_overlap)
    /\ ~emb_args.return_vectorstore
    /\ work' = <<"extract_text_from_pdf", "split_text", "embed_documents">>
    /\ emb_out' = [kind |-> "pairs", exc |-> "",
                   value |-> <<split_text(extract_text_documented(emb_args.pdf_bytes).value,
                                          emb_args.chunk_size, emb_args.chunk_overlap)>>]
    /\ EmbFrame

----------------------------------------------------------------------------
(* app.py: one browser session.  Streamlit runs the script from top to     *)
(* bottom on every interaction; st.session_state and the widgets' values   *)
(* outlive a run.                                                          *)
(*                                                                         *)
(* As the file stands, line 9 imports extractors.pdf_parser, which raises  *)
(* the SyntaxError shown by compile(PdfParserModule): no run gets past     *)
(* line 9.  The session below is the script from its session-state         *)
(* initialisation (line 53) on, with extract_text_from_pdf and             *)
(* parse_and_embed behaving as their docstrings say, so that the script's  *)
(* own handling of uploads and of the Extract button can be examined.      *)

CHUNK_SIZE == 1200
CHUNK_OVERLAP == 200

FileNames == {"a.pdf", "b.pdf"}
Files == [name : FileNames, pages : EmbDocs]

InitialMessages ==
    << [role |-> "system", content |-> <<"BASE_SYSTEM_PROMPT">>],
       [role |-> "assistant", content |-> <<"Hi! I'm here to help with fact-sheets.">>] >>

\* what the user types into st.chat_input
Prompts == { <<"q">> }

\* what a model call for a chat turn ends with: an answer text, or an exception
ChatOutcomes == { Returned(<<"x">>), Returned(<<" ", "x", " ">>), Raised("APIError") }

NoChat == [route |-> "none", input |-> <<>>]

\* what extract_json(raw_text, client, deployment) ends with: a record, or
\* the RuntimeError of an exhausted extract
ExtractJsonOutcomes ==
    { [kind |-> "returned", value |-> <<>>],
      [kind |-> "returned", value |-> <<"p">>],
      [kind |-> "RuntimeError", value |-> <<>>] }

InitApp ==
    /\ ss_messages = <<>>
    /\ ss_pdf_text = {}
    /\ ss_vector_store = {}
    /\ ss_rag_chain = {}
    /\ ss_pdf_name = {}
    /\ ss_structured_data = {}
    /\ stores = <<>>
    /\ uploaded = {}
    /\ ui_button = FALSE
    /\ ui_status = "none"
    /\ ui_run = "none"
    /\ ui_chat = FALSE
    /\ chat_call = NoChat
    /\ last_trigger = "none"
    /\ runs = 0

\* parse_and_embed(pdf_bytes, chunk_size=1200, chunk_overlap=200,
\* return_vectorstore=True) when it returns: a new store holding the chunks
NewStore(f, text) ==
    [ source |-> f,
      entries |-> << [kind |-> "chunks", text |-> text,
                      chunk_size |-> CHUNK_SIZE, chunk_overlap |-> CHUNK_OVERLAP] >> ]

\* vector_store.add_texts([json.dumps(structured, indent=2)],
\*                        metadatas=[{"source": "structured_json"}])
add_texts(store, record) ==
    [store EXCEPT !.entries =
        Append(@, [kind |-> "structured_json", text |-> record,
                   chunk_size |-> 0, chunk_overlap |-> 0])]

\* A run that ends in an uncaught exception: what was assigned before it stays.
Abort(pdf_text) ==
    /\ ss_pdf_text' = pdf_text
    /\ ss_messages' = IF ss_messages = <<>> THEN InitialMessages ELSE ss_messages
    /\ ui_run' = "exception"
    /\ ui_button' = FALSE
    /\ ui_status' = "none"
    /\ ui_chat' = FALSE
    /\ chat_call' = NoChat
    /\ UNCHANGED <<ss_vector_store, ss_rag_chain, ss_pdf_name, ss_structured_data, stores>>

\* lines 138-155: the Extract column.  stores1, vs1: the stores and the
\* session's vector store as the lines above left them.
ExtractColumn(click, ex, add_ok, stores1, vs1) ==
    IF ~click
    THEN /\ ui_status' = "none"
         /\ stores' = stores1
         /\ UNCHANGED ss_structured_data
    ELSE IF ex.kind # "returned"
    THEN \* extract_json raised: caught at line 154
         /\ ui_status' = "failed"
         /\ stores' = stores1
         /\ UNCHANGED ss_structured_data
    ELSE \* line 143, then lines 146-152, then line 153 or line 155
         /\ ss_structured_data' = {ex.value}
         /\ IF vs1 = {}
            THEN ui_status' = "success" /\ stores' = stores1
            ELSE IF add_ok
            THEN LET id == CHOOSE i \in vs1 : TRUE
                 IN  /\ stores' = [stores1 EXCEPT ![id] = add_texts(@, ex.value)]
                     /\ ui_status' = "success"
            ELSE ui_status' = "failed" /\ stores' = stores1

\* lines 81-83
NeedsRebuild(f) ==
    \/ ss_rag_chain = {}
    \/ ss_pdf_name # {f.name}

\* lines 174-187: the chat input.  chain1: the session's rag_chain as the
\* sidebar left it; p: the prompt ({}: nothing typed); ans: what the model
\* call ends with.
ChatSection(chain1, p, ans) ==
    LET msgs0 == IF ss_messages = <<>> THEN InitialMessages ELSE ss_messages
    IN  /\ ui_chat' = TRUE
        /\ IF p = {}
           THEN /\ ss_messages' = msgs0
                /\ ss_rag_chain' = chain1
                /\ chat_call' = NoChat
                /\ ui_run' = "completed"
           ELSE LET q     == CHOOSE x \in p : TRUE
                    user  == [role |-> "user", content |-> q]
                    msgs1 == Append(msgs0, user)                      \* line 175
                    rag   == chain1 # {}                              \* lines 179-181
                    answer == IF rag THEN ans.value                   \* line 182
                                     ELSE strip(ans.value)            \* line 184
                IN  /\ chat_call' = IF rag THEN [route |-> "rag", input |-> <<user>>]
                                          ELSE [route |-> "plain", input |-> msgs1]
                    /\ IF ans.raised
                       THEN \* line 182 or 184 raises: the run ends there
                            /\ ss_messages' = msgs1
                            /\ ss_rag_chain' = chain1
                            /\ ui_run' = "exception"
                       ELSE /\ ss_messages' = Append(msgs1, [role |-> "assistant",
                                                             content |-> answer])  \* line 187
                            /\ ss_rag_chain' =
                                  IF rag THEN {[c EXCEPT !.memory = @ \o <<q, answer>>] : c \in chain1}
                                         ELSE chain1
                            /\ ui_run' = "completed"

\* lines 69-169: the sidebar, for the file f of the uploader, and then the
\* chat input
Sidebar(f, click, embed_ok, ex, add_ok, p, ans) ==
    LET txt == extract_text_documented(f.pages)
    IN  IF txt.raised
        THEN Abort(ss_pdf_text)                         \* line 77 raises
        ELSE IF NeedsRebuild(f) /\ ~embed_ok
        THEN Abort({txt.value})                         \* line 92 raises
        ELSE LET need    == NeedsRebuild(f)
                 stores1 == IF need THEN Append(stores, NewStore(f, txt.value))
                                    ELSE stores
                 id      == Len(stores1)
             IN  /\ ss_pdf_text' = {txt.value}
                 /\ ss_vector_store' = IF need THEN {id} ELSE ss_vector_store
                 /\ ss_pdf_name' = IF need THEN {f.name} ELSE ss_pdf_name
                 /\ ExtractColumn(click, ex, add_ok, stores1,
                                  IF need THEN {id} ELSE ss_vector_store)
                 /\ ui_button' = TRUE
                 /\ ChatSection(IF need THEN {[store |-> id, memory |-> <<>>]}
                                        ELSE ss_rag_chain, p, ans)

\* One run of the script with the uploader holding u, the Extract button
\* clicked or not, and the chat input holding p.
ScriptRun(trigger, u, click, embed_ok, ex, add_ok, p, ans) ==
    /\ runs < MaxRuns
    /\ runs' = runs + 1
    /\ last_trigger' = trigger
    /\ uploaded' = u
    /\ IF u = {}
       THEN /\ ui_button' = FALSE
            /\ ui_status' = "none"
            /\ UNCHANGED <<ss_pdf_text, ss_vector_store, ss_pdf_name,
                           ss_structured_data, stores>>
            /\ ChatSection(ss_rag_chain, p, ans)
       ELSE Sidebar(CHOOSE f \in u : TRUE, click, embed_ok, ex, add_ok, p, ans)
    /\ UNCHANGED <<blkVars, cfgVars, exVars, pdfVars, embVars>>

NoExtract == [kind |-> "RuntimeError", value |-> <<>>]
NoAnswer == Raised("none")

\* the browser opens the page: the first run
RunPageLoad ==
    /\ runs = 0
    /\ ScriptRun("load", {}, FALSE, TRUE, NoExtract, TRUE, {}, NoAnswer)

\* the user puts a file into the uploader, replaces it or removes it
RunUpload(u) ==
    /\ runs > 0
    /\ u # uploaded
    /\ \E embed_ok \in BOOLEAN : ScriptRun("upload", u, FALSE, embed_ok, NoExtract, TRUE, {}, NoAnswer)

\* the user touches another widget (download button, expander): a plain rerun
RunRerun ==
    /\ runs > 0
    /\ \E embed_ok \in BOOLEAN : ScriptRun("rerun", uploaded, FALSE, embed_ok, NoExtract, TRUE, {}, NoAnswer)

\* the user clicks "Extract structured data"
RunClickExtract ==
    /\ ui_button
    /\ \E ex \in ExtractJsonOutcomes, add_ok \in BOOLEAN :
          ScriptRun("extract", uploaded, TRUE, TRUE, ex, add_ok, {}, NoAnswer)

\* the user sends a chat message
RunChat ==
    /\ ui_chat
    /\ \E p \in Prompts, ans \in ChatOutcomes :
          ScriptRun("chat", uploaded, FALSE, TRUE, NoExtract, TRUE, {p}, ans)

----------------------------------------------------------------------------
(* Specifications *)

ParkedBlock ==
    /\ blk_pc = "parked"
    /\ blk_text = <<>>
    /\ blk_out = NoOut

ParkedExtract ==
    /\ _client = "client"
    /\ _deployment = "gpt-4o-mini"
    /\ _temperature = "0.0"
    /\ _max_retries = 0
    /\ _max_tokens = "1024"
    /\ _SCHEMA = SchemaLiteral
    /\ ex_pc = "parked"
    /\ raw_text = <<>>
    /\ prompt = <<>>
    /\ attempt = 0
    /\ requests = <<>>
    /\ content = NoContent
    /\ ex_out = NoExOut
    /\ log = <<>>

ParkedPdf ==
    /\ pdf_pc = "parked"
    /\ doc_pages = <<>>
    /\ doc_entered = 0
    /\ doc_exited = 0
    /\ pages_read = <<>>
    /\ pdf_out = NoPdfOut

ParkedEmbed ==
    /\ emb_pc = "parked"
    /\ emb_args = [pdf_bytes |-> <<>>, chunk_size |-> 1, chunk_overlap |-> 0,
                   return_vectorstore |-> TRUE]
    /\ work = <<>>
    /\ emb_out = NoEmbOut

ParkedApp ==
    /\ ss_messages = <<>>
    /\ ss_pdf_text = {}
    /\ ss_vector_store = {}
    /\ ss_rag_chain = {}
    /\ ss_pdf_name = {}
    /\ ss_structured_data = {}
    /\ stores = <<>>
    /\ uploaded = {}
    /\ ui_button = FALSE
    /\ ui_status = "none"
    /\ ui_run = "parked"
    /\ ui_chat = FALSE
    /\ chat_call = NoChat
    /\ last_trigger = "none"
    /\ runs = MaxRuns

\* _extract_json_block on every text up to MaxLen tokens
InitSpecBlock == InitBlock /\ ParkedExtract /\ ParkedPdf /\ ParkedEmbed /\ ParkedApp
NextBlock == CallExtractJsonBlock
SpecBlock == InitSpecBlock /\ [][NextBlock]_vars

\* one extractor, one call of extract
InitSpecExtract == ParkedBlock /\ InitExtract /\ ParkedPdf /\ ParkedEmbed /\ ParkedApp
NextExtract ==
    \/ \E raw \in RawTexts : ExtractBegin(raw)
    \/ AttemptCallRaises
    \/ AttemptNoContent
    \/ \E c \in Responses : AttemptContent(c)
SpecExtract == InitSpecExtract /\ [][NextExtract]_vars

\* extract_text_from_pdf as the file stands
InitSpecPdf == ParkedBlock /\ ParkedExtract /\ InitPdf /\ ParkedEmbed /\ ParkedApp
NextPdf == ImportAndCallExtractText
SpecPdf == InitSpecPdf /\ [][NextPdf]_vars

\* one call of parse_and_embed
InitSpecEmbed == ParkedBlock /\ ParkedExtract /\ ParkedPdf /\ InitEmbed /\ ParkedApp
NextEmbed ==
    \/ ParseAndEmbed_TextFails
    \/ ParseAndEmbed_SplitterRejects
    \/ ParseAndEmbed_EmbedFails
    \/ ParseAndEmbed_ReturnsStore
    \/ ParseAndEmbed_ReturnsPairs
SpecEmbed == InitSpecEmbed /\ [][NextEmbed]_vars

\* one browser session of app.py
InitSpecApp == ParkedBlock /\ ParkedExtract /\ ParkedPdf /\ ParkedEmbed /\ InitApp
NextApp ==
    \/ RunPageLoad
    \/ \E u \in {{}} \cup {{f} : f \in Files} : RunUpload(u)
    \/ RunRerun
    \/ RunClickExtract
    \/ RunChat
SpecApp == InitSpecApp /\ [][NextApp]_vars

----------------------------------------------------------------------------
(* Properties of _extract_json_block *)

Opens(t)  == {i \in 1..Len(t) : t[i] = "{"}
Closes(t) == {i \in 1..Len(t) : t[i] = "}"}
Least(S)    == CHOOSE i \in S : \A j \in S : i <= j
Greatest(S) == CHOOSE i \in S : \A j \in S : j <= i

\* the substring from the first "{" to the last "}", both included
IsOuterBlock(v, t) ==
    /\ v # <<>>
    /\ Head(v) = "{"
    /\ v[Len(v)] = "}"
    /\ Len(v) = Greatest(Closes(t)) - Least(Opens(t)) + 1
    /\ \A i \in 1..Len(v) : v[i] = t[Least(Opens(t)) + i - 1]

\* a "}" occurs after the first "{"
HasPair(t) ==
    /\ Opens(t) # {}
    /\ Closes(t) # {}
    /\ Least(Opens(t)) < Greatest(Closes(t))

\* C3 as stated: every text that holds a "{" and a "}" gives the substring
\* from the first "{" to the last "}", both included.
C3_Original ==
    (blk_pc = "done" /\ Opens(blk_text) # {} /\ Closes(blk_text) # {})
        => (~blk_out.raised /\ IsOuterBlock(blk_out.value, blk_text))

\* C3 amended: every text in which a "}" occurs after the first "{" gives
\* the substring from the first "{" to the last "}", both included; nothing
\* before the first "{" or after the last "}" is part of the result.
C3_OuterBlock ==
    (blk_pc = "done" /\ HasPair(blk_text))
        => (~blk_out.raised /\ IsOuterBlock(blk_out.value, blk_text))

\* C3 witness: a block with text before it and text after it was returned
C3_Witness ==
    /\ blk_pc = "done"
    /\ HasPair(blk_text)
    /\ Least(Opens(blk_text)) > 1
    /\ Greatest(Closes(blk_text)) < Len(blk_text)
    /\ Cardinality(Closes(blk_text)) > 1
    /\ ~blk_out.raised

\* C4 as stated: a text with no "{" / "}" pair (a brace is missing, or no "}"
\* occurs after the first "{") gives a ValueError, and whatever is returned
\* starts with "{" and ends with "}".
C4_NoPairRaises ==
    blk_pc = "done" =>
        /\ ~HasPair(blk_text) => (blk_out.raised /\ blk_out.exc = "ValueError")
        /\ ~blk_out.raised =>
              /\ blk_out.value # <<>>
              /\ Head(blk_out.value) = "{"
              /\ blk_out.value[Len(blk_out.value)] = "}"

----------------------------------------------------------------------------
(* Properties of JSONExtractor.extract *)

Done == ex_pc \in {"returned", "raised"}

\* the members of the object a response text carries, when it carries one
InnerOf(c) == SubSeq(c, Least(Opens(c)) + 1, Greatest(Closes(c)) - 1)
CarriesObject(c) ==
    /\ HasPair(c)
    /\ SelectSeq(InnerOf(c), LAMBDA t : t # " ") \in {<<>>, <<"p">>}
MembersOf(c) == SelectSeq(InnerOf(c), LAMBDA t : t # " ")

\* C1: when every attempt fails (max_retries >= 1), the endpoint is called
\* exactly max_retries times, once per attempt, and extract raises the
\* exhaustion error reporting max_retries attempts; no call goes beyond the
\* bound, no error of an attempt reaches the caller, nothing is returned.
C1_ExhaustionAfterMaxRetries ==
    /\ Len(requests) <= _max_retries
    /\ ex_out.kind \in {"none", "returned", "RuntimeError"}
    /\ (Done /\ _max_retries >= 1 /\ Len(log) = Len(requests)) =>
          /\ ex_pc = "raised"
          /\ Len(requests) = _max_retries
          /\ \A i \in 1..Len(log) : log[i].attempt = i
          /\ ex_out = [kind |-> "RuntimeError", value |-> <<>>, attempts |-> _max_retries]

\* C1 witness: three attempts failed, each in another way, and extract raised
C1_Witness ==
    /\ ex_pc = "raised"
    /\ _max_retries = 3
    /\ Len(requests) = 3
    /\ {log[i].exc : i \in 1..Len(log)} = {"APIError", "ValueError", "JSONDecodeError"}

\* C2 (state part): when extract returns, attempt k is the one that gave
\* valid JSON, attempts 1..k-1 failed in order, the endpoint was called k
\* times and the record is the one in attempt k's response.
C2_ReturnedState ==
    ex_pc = "returned" =>
        /\ attempt \in 1.._max_retries
        /\ Len(requests) = attempt
        /\ Len(log) = attempt - 1
        /\ \A i \in 1..Len(log) : log[i].attempt = i
        /\ content.kind = "text"
        /\ CarriesObject(content.text)
        /\ ex_out = [kind |-> "returned", value |-> MembersOf(content.text),
                     attempts |-> attempt]

\* C2 (step part): an attempt whose response carries valid JSON ends the
\* call, and nothing is sent once the call has ended.
C2_ReturnStep ==
    /\ (ex_pc = "loop" /\ content'.kind = "text" /\ requests' # requests
           /\ CarriesObject(content'.text)) => ex_pc' = "returned"
    /\ Done => requests' = requests

\* C2: the first attempt k (1 <= k <= max_retries) whose response yields
\* valid JSON ends the call with that response's record after exactly k
\* calls; attempts are sequential and numbered from 1.
C2_FirstValidAttemptReturns == [] C2_ReturnedState /\ [][C2_ReturnStep]_vars

\* C2 witness: the third of three attempts gave the record after two failures
C2_Witness ==
    /\ ex_pc = "returned"
    /\ _max_retries = 3
    /\ attempt = 3
    /\ Len(log) = 2
    /\ ex_out.value = <<"p">>

\* the user prompt holds the serialized schema, then the raw text verbatim
\* between the BEGIN and END markers
PromptCarries(p, raw, schema) ==
    LET d == json_dumps(schema, 0)
    IN  \E i \in 1..Len(p) :
          /\ p[i] = BEGIN_MARK
          /\ \A j \in 1..(i - 1) : p[j] # BEGIN_MARK
          /\ Len(p) = i + Len(raw) + 2
          /\ SubSeq(p, i + 1, i + Len(raw)) = raw
          /\ p[i + Len(raw) + 1] = "\n"
          /\ p[Len(p)] = END_MARK
          /\ \E k \in 1..i : k + Len(d) - 1 < i /\ SubSeq(p, k, k + Len(d) - 1) = d

C8_SameMessages ==
    \A i \in 1..Len(requests) :
        /\ requests[i].messages = requests[1].messages
        /\ requests[i].messages[2].role = "user"
        /\ PromptCarries(requests[i].messages[2].content, raw_text, SchemaLiteral)
        /\ requests[i].model = _deployment
        /\ requests[i].temperature = _temperature
        /\ requests[i].max_tokens = _max_tokens

\* C8: extract changes nothing but the endpoint's call log: the extractor's
\* client, deployment, temperature, max_retries, max_tokens and the schema
\* keep their values over every step, and all attempts of a call send the
\* same messages, whose user prompt carries the serialized schema and the
\* raw text verbatim between the BEGIN and END markers.
C8_NoSideEffect == [][cfgVars' = cfgVars]_vars /\ [] C8_SameMessages

\* C8 witness: a call over a text holding the end marker ended after three
\* requests
C8_Witness ==
    /\ Done
    /\ Len(requests) = 3
    /\ \E i \in 1..Len(raw_text) : raw_text[i] = END_MARK

----------------------------------------------------------------------------
(* Properties of extractors/pdf_parser.py *)

\* C5 as stated: the call enters the document before any page is read and
\* exits it exactly once, whether all pages are read or a page raises.
C5_ReleasedExactlyOnce ==
    /\ pages_read # <<>> => doc_entered >= 1
    /\ pdf_pc = "done" => (doc_entered = 1 /\ doc_exited = 1)

\* C6 as stated: for readable pages p1..pn the call returns their texts in
\* document order with one newline between consecutive pages.
C6_PagesJoinedInOrder ==
    (pdf_pc = "done" /\ \A i \in 1..Len(doc_pages) : doc_pages[i] # "!")
        => (pdf_out.kind = "returned" /\ pdf_out.value = JoinNewline(doc_pages))

\* C7 as stated: with chunk_overlap >= chunk_size the call fails with a
\* configuration error before any other work: no text extraction, no
\* splitting, no embedding or index call, and nothing is returned.
C7_ConfigErrorBeforeAnyWork ==
    (emb_pc = "done" /\ emb_args.chunk_overlap >= emb_args.chunk_size)
        => (emb_out.kind = "raised" /\ emb_out.exc = "ValueError" /\ work = <<>>)

----------------------------------------------------------------------------
(* Properties of app.py *)

\* the JSON entries of the session's vector store
JsonEntries(sts, vs) ==
    IF vs = {} THEN <<>>
    ELSE SelectSeq(sts[CHOOSE i \in vs : TRUE].entries,
                   LAMBDA e : e.kind = "structured_json")

\* C9 as stated: an Extract action either succeeds (the record is replaced,
\* one JSON entry is added to the session's index, success is shown) or shows
\* "Extraction failed" and leaves the record and the index as they were.
C9_ExtractStep ==
    (last_trigger' = "extract" /\ runs' = runs + 1) =>
        \/ /\ ui_status' = "success"
           /\ ss_structured_data' # {}
           /\ ss_vector_store' = ss_vector_store
           /\ Len(JsonEntries(stores', ss_vector_store'))
                 = Len(JsonEntries(stores, ss_vector_store)) + 1
        \/ /\ ui_status' = "failed"
           /\ ss_structured_data' = ss_structured_data
           /\ stores' = stores
C9_NoPartialOutcome == [][C9_ExtractStep]_vars

\* C10 as stated: after a completed run with a file in the uploader the
\* session has a vector store and a chain, and the store behind the chain was
\* built from that file and holds chunks of no other document.
C10_IndexOfCurrentDocument ==
    (ui_run = "completed" /\ uploaded # {}) =>
        /\ ss_vector_store # {}
        /\ ss_rag_chain # {}
        /\ \A f \in uploaded, c \in ss_rag_chain :
              /\ ss_vector_store = {c.store}
              /\ stores[c.store].source = f
              /\ \A i \in 1..Len(stores[c.store].entries) :
                    stores[c.store].entries[i].kind = "chunks"
                        => stores[c.store].entries[i].text = JoinNewline(f.pages)

\* C11 as stated: a chat turn goes to the retrieval chain exactly when a
\* document is loaded at that turn, and otherwise to the plain chat
\* completion over the session's message history; either way the user
\* message and then one assistant answer are appended to the history, whose
\* earlier entries stay as they were.
C11_ChatStep ==
    (last_trigger' = "chat" /\ runs' = runs + 1) =>
        LET n == Len(ss_messages)
        IN  /\ chat_call'.route \in {"rag", "plain"}
            /\ (chat_call'.route = "rag") <=> (uploaded' # {})
            /\ chat_call'.route = "plain" =>
                  chat_call'.input = SubSeq(ss_messages', 1, n + 1)
            /\ Len(ss_messages') = n + 2
            /\ SubSeq(ss_messages', 1, n) = ss_messages
            /\ ss_messages'[n + 1].role = "user"
            /\ ss_messages'[n + 1].content \in Prompts
            /\ ss_messages'[n + 2].role = "assistant"
C11_ChatTurnDispatch == [][C11_ChatStep]_vars

====
